---- MODULE Spec2Model ----
(***************************************************************************)
(* Model of task_manager.task.Task: one Task instance, its construction    *)
(* (__post_init__ + validate), its guarded mutators and its queries.       *)
(*                                                                         *)
(* Strings that the code inspects character by character are modelled as  *)
(* data: a title is a run-length encoded string (a sequence of runs of one *)
(* character class), a priority name is a sequence of characters.          *)
(* datetime values are integers on a discrete clock; None is NoDate.       *)
(***************************************************************************)
EXTENDS Integers, Sequences, FiniteSets, TLC

VARIABLES task, constructed, now, last, pre

vars == <<task, constructed, now, last, pre>>

\* ---------------------------------------------------------------- bounds
MaxTime == 2

Times == 0..MaxTime

\* ------------------------------------------------------------- constants
MaxTitleLen == 200

NoDate == -1

\* -------------------------------------------------------------- statuses
PENDING == "PENDING"

IN_PROGRESS == "IN_PROGRESS"

COMPLETED == "COMPLETED"

CANCELLED == "CANCELLED"

TaskStatus == {PENDING, IN_PROGRESS, COMPLETED, CANCELLED}

StatusValue(s) ==
    CASE s = PENDING -> "pending"
      [] s = IN_PROGRESS -> "in_progress"
      [] s = COMPLETED -> "completed"
      [] s = CANCELLED -> "cancelled"

\* ------------------------------------------------------------ priorities
TaskPriority == {"LOW", "MEDIUM", "HIGH", "CRITICAL"}

PriorityValue(e) ==
    CASE e = "LOW" -> 1
      [] e = "MEDIUM" -> 2
      [] e = "HIGH" -> 3
      [] e = "CRITICAL" -> 4

PriorityName(e) ==
    CASE e = "LOW" -> <<"L", "O", "W">>
      [] e = "MEDIUM" -> <<"M", "E", "D", "I", "U", "M">>
      [] e = "HIGH" -> <<"H", "I", "G", "H">>
      [] e = "CRITICAL" -> <<"C", "R", "I", "T", "I", "C", "A", "L">>

\* A Python value passed as (or stored in) `priority`.  t is its type.
PyEnum(e) == [t |-> "enum", e |-> e, n |-> 0, s |-> <<>>]

PyInt(n) == [t |-> "int", e |-> "", n |-> n, s |-> <<>>]

PyStr(s) == [t |-> "str", e |-> "", n |-> 0, s |-> s]

PyNone == [t |-> "none", e |-> "", n |-> 0, s |-> <<>>]

PyFloat(n) == [t |-> "float", e |-> "", n |-> n, s |-> <<>>]

\* str.upper() on the characters used here; any other character is kept.
LowerChars == <<"a", "c", "d", "e", "g", "h", "i", "l", "m", "o", "r", "t", "u", "w">>

UpperChars == <<"A", "C", "D", "E", "G", "H", "I", "L", "M", "O", "R", "T", "U", "W">>

UpperChar(c) ==
    IF \E i \in 1..Len(LowerChars) : LowerChars[i] = c
    THEN UpperChars[CHOOSE i \in 1..Len(LowerChars) : LowerChars[i] = c]
    ELSE c

Upper(s) == [i \in 1..Len(s) |-> UpperChar(s[i])]

\* TaskPriority[name]: the member of that exact name, else KeyError.
EnumByName(name) ==
    IF \E e \in TaskPriority : PriorityName(e) = name
    THEN [err |-> "ok", val |-> PyEnum(CHOOSE e \in TaskPriority : PriorityName(e) = name)]
    ELSE [err |-> "KeyError", val |-> PyNone]

\* TaskPriority(value): the member of that value, else ValueError.
EnumByValue(n) ==
    IF \E e \in TaskPriority : PriorityValue(e) = n
    THEN [err |-> "ok", val |-> PyEnum(CHOOSE e \in TaskPriority : PriorityValue(e) = n)]
    ELSE [err |-> "ValueError", val |-> PyNone]

\* --------------------------------------------------------------- titles
\* A title is a sequence of runs [c, n]: n >= 1 copies of a character of
\* class c, " " (whitespace) or "a" (anything else); adjacent runs differ.
Run(c, n) == [c |-> c, n |-> n]

RECURSIVE StrLen(_)
StrLen(s) == IF s = <<>> THEN 0 ELSE Head(s).n + StrLen(Tail(s))

RECURSIVE LStrip(_)
LStrip(s) ==
    IF s = <<>> THEN s
    ELSE IF Head(s).c = " " THEN LStrip(Tail(s)) ELSE s

RECURSIVE RStrip(_)
RStrip(s) ==
    IF s = <<>> THEN s
    ELSE IF s[Len(s)].c = " " THEN RStrip(SubSeq(s, 1, Len(s) - 1)) ELSE s

Strip(s) == RStrip(LStrip(s))

\* --------------------------------------------------------------- results
\* What a call does: it returns (kind "ok") or raises an exception of the
\* given kind carrying msg; task is the object's fields after the call.
Ok == [kind |-> "ok", msg |-> ""]

Raise(kind, msg) == [kind |-> kind, msg |-> msg]

ValidationError(msg) == Raise("ValidationError", msg)

Result(err, t) == [err |-> err, task |-> t]

\* ------------------------------------------------------------- validate
\* validate() without its due-date rule.
validate_no_due_check(t) ==
    IF t.title = <<>> \/ StrLen(Strip(t.title)) = 0
    THEN ValidationError("Title cannot be empty")
    ELSE IF StrLen(t.title) > MaxTitleLen
    THEN ValidationError("Title cannot exceed 200 characters")
    ELSE IF t.task_id < 0
    THEN ValidationError("Task ID must be non-negative")
    ELSE Ok

\* validate() that checks the length of the title before its emptiness.
validate_length_first(t) ==
    IF StrLen(t.title) > MaxTitleLen
    THEN ValidationError("Title cannot exceed 200 characters")
    ELSE IF t.title = <<>> \/ StrLen(Strip(t.title)) = 0
    THEN ValidationError("Title cannot be empty")
    ELSE IF t.task_id < 0
    THEN ValidationError("Task ID must be non-negative")
    ELSE IF t.due_date # NoDate /\ t.due_date < t.created_at
    THEN ValidationError("Due date cannot be before creation date")
    ELSE Ok

validate(t) ==
    IF t.title = <<>> \/ StrLen(Strip(t.title)) = 0
    THEN ValidationError("Title cannot be empty")
    ELSE IF StrLen(t.title) > MaxTitleLen
    THEN ValidationError("Title cannot exceed 200 characters")
    ELSE IF t.task_id < 0
    THEN ValidationError("Task ID must be non-negative")
    ELSE IF t.due_date # NoDate /\ t.due_date < t.created_at
    THEN ValidationError("Due date cannot be before creation date")
    ELSE Ok

\* ---------------------------------------------------------- construction
\* The priority normalisation at the head of __post_init__.
post_init_priority(p) ==
    IF p.t = "str" THEN EnumByName(Upper(p.s))
    ELSE IF p.t = "int" THEN EnumByValue(p.n)
    ELSE IF p.t = "none" THEN [err |-> "ok", val |-> PyEnum("MEDIUM")]
    ELSE [err |-> "ok", val |-> p]

\* The dataclass __init__ followed by __post_init__.  created_at and
\* updated_at default to datetime.now(), read here as clk.
DefaultTime == -2

AbsentPriority == [t |-> "absent", e |-> "", n |-> 0, s |-> <<>>]

FieldsOf(task_id, title, description, status, priority, created_at, updated_at, due_date) ==
    [task_id |-> task_id, title |-> title, description |-> description,
     status |-> status, priority |-> priority, created_at |-> created_at,
     updated_at |-> updated_at, due_date |-> due_date]

post_init(a, clk) ==
    LET given == IF a.priority.t = "absent" THEN PyEnum("MEDIUM") ELSE a.priority
        norm == post_init_priority(given)
        t == FieldsOf(a.task_id, a.title, a.description, a.status, norm.val,
                      IF a.created_at = DefaultTime THEN clk ELSE a.created_at,
                      IF a.updated_at = DefaultTime THEN clk ELSE a.updated_at,
                      a.due_date)
    IN  IF norm.err # "ok" THEN Result(Raise(norm.err, ""), t)
        ELSE Result(validate(t), t)

\* ------------------------------------------------------ status mutators
\* mark_in_progress() without its guard on CANCELLED.
mark_in_progress_no_cancel_guard(t, clk) ==
    IF t.status = COMPLETED
    THEN Result(ValidationError("Cannot modify a completed task"), t)
    ELSE Result(Ok, [t EXCEPT !.status = IN_PROGRESS, !.updated_at = clk])

mark_in_progress(t, clk) ==
    IF t.status = COMPLETED
    THEN Result(ValidationError("Cannot modify a completed task"), t)
    ELSE IF t.status = CANCELLED
    THEN Result(ValidationError("Cannot modify a cancelled task"), t)
    ELSE Result(Ok, [t EXCEPT !.status = IN_PROGRESS, !.updated_at = clk])

\* mark_completed() that treats a repeated completion as an error.
mark_completed_rejects_repeat(t, clk) ==
    IF t.status = CANCELLED
    THEN Result(ValidationError("Cannot complete a cancelled task"), t)
    ELSE IF t.status = COMPLETED
    THEN Result(ValidationError("Cannot modify a completed task"), t)
    ELSE Result(Ok, [t EXCEPT !.status = COMPLETED, !.updated_at = clk])

mark_completed(t, clk) ==
    IF t.status = CANCELLED
    THEN Result(ValidationError("Cannot complete a cancelled task"), t)
    ELSE Result(Ok, [t EXCEPT !.status = COMPLETED, !.updated_at = clk])

\* mark_cancelled() without its guard.
mark_cancelled_unguarded(t, clk) ==
    Result(Ok, [t EXCEPT !.status = CANCELLED, !.updated_at = clk])

mark_cancelled(t, clk) ==
    IF t.status = COMPLETED
    THEN Result(ValidationError("Cannot cancel a completed task"), t)
    ELSE Result(Ok, [t EXCEPT !.status = CANCELLED, !.updated_at = clk])

\* ------------------------------------------------------- field mutators
\* update_title() that refreshes updated_at before it checks the title.
update_title_touch_first(t, new_title, clk) ==
    IF new_title = <<>> \/ StrLen(Strip(new_title)) = 0
    THEN Result(ValidationError("Title cannot be empty"), [t EXCEPT !.updated_at = clk])
    ELSE IF StrLen(new_title) > MaxTitleLen
    THEN Result(ValidationError("Title cannot exceed 200 characters"),
                [t EXCEPT !.updated_at = clk])
    ELSE Result(Ok, [t EXCEPT !.title = new_title, !.updated_at = clk])

\* update_title() without its length rule.
update_title_no_length(t, new_title, clk) ==
    IF new_title = <<>> \/ StrLen(Strip(new_title)) = 0
    THEN Result(ValidationError("Title cannot be empty"), t)
    ELSE Result(Ok, [t EXCEPT !.title = new_title, !.updated_at = clk])

\* update_title() that measures the trimmed title.
update_title_trimmed_length(t, new_title, clk) ==
    IF new_title = <<>> \/ StrLen(Strip(new_title)) = 0
    THEN Result(ValidationError("Title cannot be empty"), t)
    ELSE IF StrLen(Strip(new_title)) > MaxTitleLen
    THEN Result(ValidationError("Title cannot exceed 200 characters"), t)
    ELSE Result(Ok, [t EXCEPT !.title = new_title, !.updated_at = clk])

\* update_title() that stamps created_at instead of updated_at.
update_title_stamps_created(t, new_title, clk) ==
    IF new_title = <<>> \/ StrLen(Strip(new_title)) = 0
    THEN Result(ValidationError("Title cannot be empty"), t)
    ELSE IF StrLen(new_title) > MaxTitleLen
    THEN Result(ValidationError("Title cannot exceed 200 characters"), t)
    ELSE Result(Ok, [t EXCEPT !.title = new_title, !.created_at = clk])

\* update_title() that refuses to touch a completed task.
update_title_guarded(t, new_title, clk) ==
    IF t.status = COMPLETED
    THEN Result(ValidationError("Cannot modify a completed task"), t)
    ELSE IF new_title = <<>> \/ StrLen(Strip(new_title)) = 0
    THEN Result(ValidationError("Title cannot be empty"), t)
    ELSE IF StrLen(new_title) > MaxTitleLen
    THEN Result(ValidationError("Title cannot exceed 200 characters"), t)
    ELSE Result(Ok, [t EXCEPT !.title = new_title, !.updated_at = clk])

update_title(t, new_title, clk) ==
    IF new_title = <<>> \/ StrLen(Strip(new_title)) = 0
    THEN Result(ValidationError("Title cannot be empty"), t)
    ELSE IF StrLen(new_title) > MaxTitleLen
    THEN Result(ValidationError("Title cannot exceed 200 characters"), t)
    ELSE Result(Ok, [t EXCEPT !.title = new_title, !.updated_at = clk])

\* update_description() that refreshes updated_at only on a real change.
update_description_lazy(t, new_description, clk) ==
    IF new_description = t.description THEN Result(Ok, t)
    ELSE Result(Ok, [t EXCEPT !.description = new_description, !.updated_at = clk])

update_description(t, new_description, clk) ==
    Result(Ok, [t EXCEPT !.description = new_description, !.updated_at = clk])

\* set_priority() that looks the name up as given, without upper().
set_priority_case_sensitive(t, p, clk) ==
    LET norm == IF p.t = "str" THEN EnumByName(p.s)
                ELSE IF p.t = "int" THEN EnumByValue(p.n)
                ELSE [err |-> "ok", val |-> p]
    IN  IF norm.err # "ok" THEN Result(Raise(norm.err, ""), t)
        ELSE Result(Ok, [t EXCEPT !.priority = norm.val, !.updated_at = clk])

set_priority(t, p, clk) ==
    LET norm == IF p.t = "str" THEN EnumByName(Upper(p.s))
                ELSE IF p.t = "int" THEN EnumByValue(p.n)
                ELSE [err |-> "ok", val |-> p]
    IN  IF norm.err # "ok" THEN Result(Raise(norm.err, ""), t)
        ELSE Result(Ok, [t EXCEPT !.priority = norm.val, !.updated_at = clk])

\* --------------------------------------------------------------- queries
\* is_overdue() that counts the due instant itself as overdue.
is_overdue_inclusive(t, clk) ==
    IF t.due_date = NoDate THEN FALSE
    ELSE clk >= t.due_date /\ t.status # COMPLETED /\ t.status # CANCELLED

\* is_overdue() that counts only a PENDING task as overdue.
is_overdue_pending_only(t, clk) ==
    IF t.due_date = NoDate THEN FALSE
    ELSE clk > t.due_date /\ t.status = PENDING

is_overdue(t, clk) ==
    IF t.due_date = NoDate THEN FALSE
    ELSE clk > t.due_date /\ t.status # COMPLETED /\ t.status # CANCELLED

\* datetime.isoformat(): the text of the timestamp.
isoformat(d) == ToString(d)

NoDict ==
    [task_id |-> 0, title |-> <<>>, description |-> "", status |-> "",
     priority |-> 0, created_at |-> "", updated_at |-> "", due_date |-> "",
     is_overdue |-> FALSE]

\* priority.value exists only on an enum member; None and other objects
\* have no such attribute.
to_dict(t, clk) ==
    IF t.priority.t # "enum"
    THEN [err |-> Raise("AttributeError", ""), dict |-> NoDict]
    ELSE [err |-> Ok,
          dict |-> [task_id |-> t.task_id, title |-> t.title,
                    description |-> t.description,
                    status |-> StatusValue(t.status),
                    priority |-> PriorityValue(t.priority.e),
                    created_at |-> isoformat(t.created_at),
                    updated_at |-> isoformat(t.updated_at),
                    due_date |-> IF t.due_date # NoDate
                                 THEN isoformat(t.due_date) ELSE "null",
                    is_overdue |-> is_overdue(t, clk)]]

\* ---------------------------------------------------------------- inputs
LowerChar(c) ==
    IF \E i \in 1..Len(UpperChars) : UpperChars[i] = c
    THEN LowerChars[CHOOSE i \in 1..Len(UpperChars) : UpperChars[i] = c]
    ELSE c

\* Every spelling of a name in mixed letter case.
CaseVariants(name) ==
    { [i \in 1..Len(name) |-> IF i \in low THEN LowerChar(name[i]) ELSE name[i]] :
        low \in SUBSET (1..Len(name)) }

\* Upper case, lower case and capitalised.
SomeVariants(name) ==
    { name,
      [i \in 1..Len(name) |-> LowerChar(name[i])],
      [i \in 1..Len(name) |-> IF i = 1 THEN name[i] ELSE LowerChar(name[i])] }

UnknownNames ==
    { <<>>, <<"h", "i">>, <<"3">>, <<" ", "l", "o", "w">>, <<"u", "r", "g", "e", "n", "t">> }

PriorityStrings ==
    CaseVariants(PriorityName("LOW")) \cup SomeVariants(PriorityName("MEDIUM"))
        \cup SomeVariants(PriorityName("HIGH"))
        \cup SomeVariants(PriorityName("CRITICAL")) \cup UnknownNames

PriorityInts == -1..5

PriorityInputs ==
    { PyEnum(e) : e \in TaskPriority } \cup { PyInt(n) : n \in PriorityInts }
        \cup { PyStr(s) : s \in PriorityStrings } \cup { PyNone, PyFloat(3) }

TitleInputs ==
    { <<>>,
      <<Run(" ", 1)>>, <<Run(" ", MaxTitleLen + 1)>>,
      <<Run("a", 1)>>, <<Run("a", MaxTitleLen)>>, <<Run("a", MaxTitleLen + 1)>>,
      <<Run(" ", 1), Run("a", MaxTitleLen - 1)>>,
      <<Run(" ", 1), Run("a", MaxTitleLen)>>,
      <<Run("a", MaxTitleLen), Run(" ", 1)>>,
      <<Run(" ", 1), Run("a", 1), Run(" ", 1)>>,
      <<Run(" ", 1), Run("a", MaxTitleLen - 1), Run(" ", 1)>>,
      <<Run("a", 1), Run(" ", 1), Run("a", 1)>> }

DescriptionInputs == {"", "d"}

IdInputs == {-1, 0, 1}

ConstructorArgs(ids, titles, statuses, priorities, created, due) ==
    [task_id : ids, title : titles, description : {""},
     status : statuses, priority : priorities,
     created_at : created, updated_at : {DefaultTime}, due_date : due]

\* ----------------------------------------------------------------- state
\* task: the fields of the instance (meaningful once constructed).
\* now: the clock datetime.now() reads.  last: the latest call, its
\* arguments and what it returned or raised.  pre: the fields as they were
\* when that call began.
NoTask == FieldsOf(0, <<>>, "", PENDING, PyNone, 0, 0, NoDate)

NoArgs ==
    [task_id |-> 0, title |-> <<>>, description |-> "", status |-> PENDING,
     priority |-> AbsentPriority, created_at |-> DefaultTime,
     updated_at |-> DefaultTime, due_date |-> NoDate]

Call(op, err, at) ==
    [op |-> op, kind |-> err.kind, msg |-> err.msg, at |-> at,
     args |-> NoArgs, title |-> <<>>, prio |-> AbsentPriority, desc |-> "",
     ret |-> FALSE, dict |-> NoDict]

Init ==
    /\ task = NoTask
    /\ constructed = FALSE
    /\ now = 0
    /\ last = Call("none", Ok, 0)
    /\ pre = NoTask

Tick ==
    /\ now < MaxTime
    /\ now' = now + 1
    /\ UNCHANGED <<task, constructed, last, pre>>

\* The constructor is called once; a construction that raises leaves no
\* instance behind.
Construct(Args) ==
    /\ ~constructed
    /\ last.op = "none"
    /\ \E a \in Args :
         LET r == post_init(a, now) IN
         /\ constructed' = (r.err.kind = "ok")
         /\ task' = IF r.err.kind = "ok" THEN r.task ELSE task
         /\ last' = [Call("construct", r.err, now) EXCEPT !.args = a]
         /\ pre' = task
    /\ UNCHANGED now

MarkInProgress ==
    /\ constructed
    /\ LET r == mark_in_progress(task, now) IN
         /\ task' = r.task
         /\ last' = Call("mark_in_progress", r.err, now)
    /\ pre' = task
    /\ UNCHANGED <<constructed, now>>

MarkCompleted ==
    /\ constructed
    /\ LET r == mark_completed(task, now) IN
         /\ task' = r.task
         /\ last' = Call("mark_completed", r.err, now)
    /\ pre' = task
    /\ UNCHANGED <<constructed, now>>

MarkCancelled ==
    /\ constructed
    /\ LET r == mark_cancelled(task, now) IN
         /\ task' = r.task
         /\ last' = Call("mark_cancelled", r.err, now)
    /\ pre' = task
    /\ UNCHANGED <<constructed, now>>

UpdateTitle(Titles) ==
    /\ constructed
    /\ \E new_title \in Titles :
         LET r == update_title(task, new_title, now) IN
         /\ task' = r.task
         /\ last' = [Call("update_title", r.err, now) EXCEPT !.title = new_title]
    /\ pre' = task
    /\ UNCHANGED <<constructed, now>>

UpdateDescription ==
    /\ constructed
    /\ \E new_description \in DescriptionInputs :
         LET r == update_description(task, new_description, now) IN
         /\ task' = r.task
         /\ last' = [Call("update_description", r.err, now) EXCEPT !.desc = new_description]
    /\ pre' = task
    /\ UNCHANGED <<constructed, now>>

SetPriority(Priorities) ==
    /\ constructed
    /\ \E p \in Priorities :
         LET r == set_priority(task, p, now) IN
         /\ task' = r.task
         /\ last' = [Call("set_priority", r.err, now) EXCEPT !.prio = p]
    /\ pre' = task
    /\ UNCHANGED <<constructed, now>>

\* validate() that trims the title it checks and stores it back.
Validate_trimming ==
    /\ constructed
    /\ last' = Call("validate", validate(task), now)
    /\ pre' = task
    /\ task' = [task EXCEPT !.title = Strip(task.title)]
    /\ UNCHANGED <<constructed, now>>

Validate ==
    /\ constructed
    /\ last' = Call("validate", validate(task), now)
    /\ pre' = task
    /\ UNCHANGED <<task, constructed, now>>

IsOverdue ==
    /\ constructed
    /\ last' = [Call("is_overdue", Ok, now) EXCEPT !.ret = is_overdue(task, now)]
    /\ pre' = task
    /\ UNCHANGED <<task, constructed, now>>

ToDict ==
    /\ constructed
    /\ LET r == to_dict(task, now) IN
         last' = [Call("to_dict", r.err, now) EXCEPT !.dict = r.dict]
    /\ pre' = task
    /\ UNCHANGED <<task, constructed, now>>

\* ------------------------------------------------------- specifications
\* Spec: the whole life of one task over the clock, with a few titles and
\* priorities of each kind; created_at is the default or the earliest time
\* (SpecValidate constructs with every created_at).
FewTitles ==
    { <<>>, <<Run("a", 1)>>, <<Run(" ", 1), Run("a", 1), Run(" ", 1)>>,
      <<Run("a", MaxTitleLen + 1)>> }

FewPriorities ==
    { PyEnum("LOW"), PyInt(3), PyInt(0), PyStr(<<"h", "i", "g", "h">>),
      PyStr(<<"h", "i">>), PyNone }

LifeArgs ==
    ConstructorArgs({-1, 0}, FewTitles, TaskStatus,
                    {AbsentPriority, PyStr(<<"h", "i", "g", "h">>), PyInt(0)},
                    {0, DefaultTime}, Times \cup {NoDate})

Next ==
    \/ Tick
    \/ Construct(LifeArgs)
    \/ MarkInProgress
    \/ MarkCompleted
    \/ MarkCancelled
    \/ UpdateTitle(FewTitles)
    \/ UpdateDescription
    \/ SetPriority(FewPriorities)
    \/ Validate
    \/ IsOverdue
    \/ ToDict

Spec == Init /\ [][Next]_vars

\* SpecTitle: every title of TitleInputs, at construction and in
\* update_title; the other inputs are few.
TitleArgs ==
    ConstructorArgs({-1, 0}, TitleInputs, {PENDING}, {AbsentPriority},
                    {DefaultTime}, {NoDate})

NextTitle ==
    \/ Tick
    \/ Construct(TitleArgs)
    \/ MarkInProgress
    \/ MarkCompleted
    \/ MarkCancelled
    \/ UpdateTitle(TitleInputs)
    \/ UpdateDescription
    \/ SetPriority({PyInt(1), PyInt(0)})
    \/ Validate
    \/ IsOverdue
    \/ ToDict

SpecTitle == Init /\ [][NextTitle]_vars

\* SpecPriority: every priority of PriorityInputs, at construction and in
\* set_priority; the other inputs are few.
PriorityArgs ==
    ConstructorArgs({0}, {<<Run("a", 1)>>}, {PENDING},
                    PriorityInputs \cup {AbsentPriority}, {DefaultTime}, {NoDate})

NextPriority ==
    \/ Tick
    \/ Construct(PriorityArgs)
    \/ MarkInProgress
    \/ MarkCompleted
    \/ MarkCancelled
    \/ UpdateTitle({<<>>, <<Run("a", 1)>>})
    \/ UpdateDescription
    \/ SetPriority(PriorityInputs)
    \/ Validate
    \/ IsOverdue
    \/ ToDict

SpecPriority == Init /\ [][NextPriority]_vars

\* SpecValidate: constructions that break several rules of validate() at
\* once: every title of TitleInputs with a negative or valid task_id and
\* every pair of created_at and due_date.
ValidateArgs ==
    ConstructorArgs({-1, 0}, TitleInputs, {PENDING}, {AbsentPriority},
                    Times \cup {DefaultTime}, Times \cup {NoDate})

NextValidate ==
    \/ Tick
    \/ Construct(ValidateArgs)
    \/ MarkInProgress
    \/ MarkCompleted
    \/ MarkCancelled
    \/ UpdateTitle(FewTitles)
    \/ UpdateDescription
    \/ SetPriority({PyInt(1), PyInt(0)})
    \/ Validate
    \/ IsOverdue
    \/ ToDict

SpecValidate == Init /\ [][NextValidate]_vars

\* ================================================================ claims
Terminal == {COMPLETED, CANCELLED}

Mutators == {"mark_in_progress", "mark_completed", "mark_cancelled",
             "update_title", "update_description", "set_priority"}

\* C1: the status transition matrix.  mark_in_progress succeeds exactly
\* from PENDING and IN_PROGRESS, mark_completed exactly from PENDING,
\* IN_PROGRESS and COMPLETED, mark_cancelled exactly from PENDING,
\* IN_PROGRESS and CANCELLED; every other call fails with ValidationError;
\* a successful call leaves the status IN_PROGRESS, COMPLETED, CANCELLED.
TransitionMatrix ==
    /\ last.op = "mark_in_progress" =>
         /\ (last.kind = "ok") <=> (pre.status \in {PENDING, IN_PROGRESS})
         /\ (last.kind = "ValidationError") <=> (pre.status \in {COMPLETED, CANCELLED})
         /\ last.kind = "ok" => task.status = IN_PROGRESS
    /\ last.op = "mark_completed" =>
         /\ (last.kind = "ok") <=> (pre.status \in {PENDING, IN_PROGRESS, COMPLETED})
         /\ (last.kind = "ValidationError") <=> (pre.status = CANCELLED)
         /\ last.kind = "ok" => task.status = COMPLETED
    /\ last.op = "mark_cancelled" =>
         /\ (last.kind = "ok") <=> (pre.status \in {PENDING, IN_PROGRESS, CANCELLED})
         /\ (last.kind = "ValidationError") <=> (pre.status = COMPLETED)
         /\ last.kind = "ok" => task.status = CANCELLED

TransitionMatrixWitness ==
    /\ last.op = "mark_in_progress"
    /\ pre.status = CANCELLED
    /\ last.kind = "ValidationError"
    /\ task.status = CANCELLED

\* C2: COMPLETED and CANCELLED are absorbing.  No step of the task, whether
\* its call returns or raises, takes the status out of COMPLETED or out of
\* CANCELLED.
TerminalAbsorbing ==
    [][(constructed /\ task.status \in Terminal) => task'.status = task.status]_vars

TerminalAbsorbingWitness ==
    /\ last.op = "mark_cancelled"
    /\ last.kind = "ValidationError"
    /\ pre.status = COMPLETED
    /\ task.status = COMPLETED

\* C3: a call of mark_in_progress, mark_completed, mark_cancelled,
\* update_title or set_priority that raises leaves every field, updated_at
\* included, as it was when the call began.
FailureLeavesTask ==
    (last.op \in Mutators /\ last.kind # "ok") => task = pre

FailureLeavesTaskWitness ==
    /\ last.op = "set_priority"
    /\ last.kind = "ValueError"
    /\ last.at > pre.updated_at
    /\ task = pre

\* C4: in every state of a constructed task the title is non-empty after
\* trimming and at most 200 raw characters long, task_id >= 0 and a due_date
\* that is set is not before created_at; validate() never raises.
AllWhitespace(s) == \A i \in 1..Len(s) : s[i].c = " "

ValidationInvariants ==
    constructed =>
        /\ ~AllWhitespace(task.title)
        /\ StrLen(task.title) <= MaxTitleLen
        /\ task.task_id >= 0
        /\ task.due_date # NoDate => task.due_date >= task.created_at
        /\ last.op = "validate" => last.kind = "ok"

ValidationInvariantsWitness ==
    /\ last.op = "validate"
    /\ last.kind = "ok"
    /\ task.due_date # NoDate
    /\ task.title = <<Run(" ", 1), Run("a", 1), Run(" ", 1)>>
    /\ task.status = COMPLETED

\* C5: construction and update_title reject a title with ValidationError
\* exactly when it is empty, all whitespace, or longer than 200 raw
\* characters.  A rejected update_title keeps the old title and updated_at;
\* an accepted one stores the new title as given, untrimmed.
TitleRejected(s) == StrLen(s) = 0 \/ AllWhitespace(s) \/ StrLen(s) > MaxTitleLen

TitleRule ==
    /\ last.op = "update_title" =>
         /\ (last.kind = "ValidationError") <=> TitleRejected(last.title)
         /\ (last.kind = "ok") <=> ~TitleRejected(last.title)
         /\ TitleRejected(last.title) =>
              task.title = pre.title /\ task.updated_at = pre.updated_at
         /\ ~TitleRejected(last.title) => task.title = last.title
    /\ last.op = "construct" =>
         /\ TitleRejected(last.args.title) => last.kind = "ValidationError"
         /\ (~TitleRejected(last.args.title) /\ last.args.task_id >= 0) =>
              last.kind = "ok" /\ task.title = last.args.title

TitleRuleWitness ==
    /\ last.op = "update_title"
    /\ last.title = <<Run(" ", 1), Run("a", MaxTitleLen)>>
    /\ last.kind = "ValidationError"
    /\ pre.title = <<Run("a", MaxTitleLen)>>
    /\ task.title = pre.title

\* C6: a priority string that is not the name of a priority in any letter
\* case, or an integer outside 1..4, makes the constructor and set_priority
\* raise ValidationError.
IsCaseVariant(s, name) ==
    /\ Len(s) = Len(name)
    /\ \A i \in 1..Len(name) : s[i] = name[i] \/ s[i] = LowerChar(name[i])

Denotes(p, e) ==
    \/ p = PyEnum(e)
    \/ p.t = "int" /\ p.n = PriorityValue(e)
    \/ p.t = "str" /\ IsCaseVariant(p.s, PriorityName(e))

Unrecognised(p) ==
    /\ p.t \in {"str", "int"}
    /\ \A e \in TaskPriority : ~Denotes(p, e)

UnknownPriorityIsValidationError ==
    /\ (last.op = "construct" /\ Unrecognised(last.args.priority)) =>
         last.kind = "ValidationError"
    /\ (last.op = "set_priority" /\ Unrecognised(last.prio)) =>
         last.kind = "ValidationError"

\* C7: the enum member, the integer code and every letter-case spelling of
\* the name of a priority P are all stored as P, by the constructor and by
\* set_priority alike; None or no priority at construction gives MEDIUM.
PriorityNormalization ==
    /\ \A e \in TaskPriority :
         /\ (last.op = "construct" /\ Denotes(last.args.priority, e)) =>
              last.kind = "ok" /\ task.priority = PyEnum(e)
         /\ (last.op = "set_priority" /\ Denotes(last.prio, e)) =>
              last.kind = "ok" /\ task.priority = PyEnum(e)
    /\ (last.op = "construct" /\ last.args.priority \in {PyNone, AbsentPriority}) =>
         last.kind = "ok" /\ task.priority = PyEnum("MEDIUM")

PriorityNormalizationWitness ==
    /\ last.op = "set_priority"
    /\ last.prio = PyStr(<<"l", "O", "w">>)
    /\ pre.priority = PyEnum("HIGH")
    /\ task.priority = PyEnum("LOW")

\* C8: is_overdue() is false without a due_date; with one it is true exactly
\* when the clock is strictly past due_date and the status is neither
\* COMPLETED nor CANCELLED.
OverdueRule ==
    last.op = "is_overdue" =>
        /\ task.due_date = NoDate => last.ret = FALSE
        /\ task.due_date # NoDate =>
             (last.ret = TRUE <=> (last.at > task.due_date /\ task.status \notin Terminal))
        /\ (task.due_date # NoDate /\ last.at = task.due_date) => last.ret = FALSE
        /\ (task.due_date # NoDate /\ last.at > task.due_date /\ task.status \in Terminal) =>
             last.ret = FALSE
        /\ (task.due_date # NoDate /\ last.at > task.due_date
              /\ task.status \in {PENDING, IN_PROGRESS}) => last.ret = TRUE

OverdueRuleWitness ==
    /\ last.op = "is_overdue"
    /\ task.due_date # NoDate
    /\ last.at > task.due_date
    /\ task.status = IN_PROGRESS
    /\ last.ret = TRUE

\* C9 as stated: a construction with only task_id, title, priority and a
\* due_date before the moment of construction succeeds.
PastDueArgs(a, at) ==
    /\ a.created_at = DefaultTime
    /\ a.due_date # NoDate
    /\ a.due_date < at
    /\ a.task_id >= 0
    /\ ~TitleRejected(a.title)
    /\ ~Unrecognised(a.priority)
    /\ a.status = PENDING

PastDueConstructionSucceeds ==
    (last.op = "construct" /\ PastDueArgs(last.args, last.at)) => last.kind = "ok"

\* C9 amended: that construction raises ValidationError, the due date being
\* before the creation date.  A PENDING or IN_PROGRESS task is overdue once
\* the clock is past its due_date, and after mark_completed() it is not.
PastDueConstructionRejected ==
    /\ (last.op = "construct" /\ PastDueArgs(last.args, last.at)) =>
         /\ last.kind = "ValidationError"
         /\ last.msg = "Due date cannot be before creation date"
         /\ ~constructed
    /\ (last.op = "is_overdue" /\ task.due_date # NoDate /\ last.at > task.due_date) =>
         /\ task.status \in {PENDING, IN_PROGRESS} => last.ret = TRUE
         /\ task.status = COMPLETED => last.ret = FALSE
    /\ (last.op = "mark_completed" /\ pre.status \in {PENDING, IN_PROGRESS}) =>
         last.kind = "ok" /\ task.status = COMPLETED

PastDueConstructionRejectedWitness ==
    /\ last.op = "construct"
    /\ PastDueArgs(last.args, last.at)
    /\ last.args.priority = PyStr(<<"h", "i", "g", "h">>)
    /\ last.kind = "ValidationError"

\* C10 as stated: mark_completed on a COMPLETED task and mark_cancelled on a
\* CANCELLED task return and leave the task as it was.
RepeatedTerminal ==
    \/ last.op = "mark_completed" /\ pre.status = COMPLETED
    \/ last.op = "mark_cancelled" /\ pre.status = CANCELLED

RepeatIsNoOp ==
    RepeatedTerminal => last.kind = "ok" /\ task = pre

\* C10 amended: they return and leave every field but updated_at as it was;
\* updated_at is set to the time of the call.
RepeatKeepsAllButUpdatedAt ==
    RepeatedTerminal =>
        /\ last.kind = "ok"
        /\ [task EXCEPT !.updated_at = pre.updated_at] = pre
        /\ task.updated_at = last.at

RepeatKeepsAllButUpdatedAtWitness ==
    /\ last.op = "mark_completed"
    /\ pre.status = COMPLETED
    /\ last.kind = "ok"
    /\ task.updated_at > pre.updated_at

\* C11: every successful call of a mutator sets updated_at to the time of
\* that call, also when the call leaves every other field as it was.
UpdatedAtRefreshed ==
    (last.op \in Mutators /\ last.kind = "ok") => task.updated_at = last.at

UpdatedAtRefreshedWitness ==
    /\ last.op = "update_description"
    /\ last.kind = "ok"
    /\ last.desc = pre.description
    /\ [task EXCEPT !.updated_at = pre.updated_at] = pre
    /\ pre.updated_at < last.at
    /\ task.updated_at = last.at

\* C12: task_id, created_at and due_date are fixed at construction.  No
\* step of a constructed task, whether its call returns or raises, changes
\* any of the three.
IdentityFieldsFixed ==
    [][constructed =>
         /\ task'.task_id = task.task_id
         /\ task'.created_at = task.created_at
         /\ task'.due_date = task.due_date]_vars

IdentityFieldsFixedWitness ==
    /\ last.op = "update_title"
    /\ last.kind = "ok"
    /\ task.title # pre.title
    /\ task.created_at < last.at
    /\ task.due_date # NoDate
    /\ task.created_at = pre.created_at

\* C13: in every state of a constructed task to_dict() returns a mapping
\* whose status is the string code of the status, whose priority is the
\* integer code of the priority, whose due_date is null exactly when no
\* due_date is set, and whose is_overdue is what is_overdue() returns then.
Queries == {"validate", "is_overdue", "to_dict"}

ToDictProjects ==
    last.op = "to_dict" =>
        /\ last.kind = "ok"
        /\ task.status = PENDING => last.dict.status = "pending"
        /\ task.status = IN_PROGRESS => last.dict.status = "in_progress"
        /\ task.status = COMPLETED => last.dict.status = "completed"
        /\ task.status = CANCELLED => last.dict.status = "cancelled"
        /\ last.dict.priority \in 1..4
        /\ task.priority = PyEnum("LOW") => last.dict.priority = 1
        /\ task.priority = PyEnum("MEDIUM") => last.dict.priority = 2
        /\ task.priority = PyEnum("HIGH") => last.dict.priority = 3
        /\ task.priority = PyEnum("CRITICAL") => last.dict.priority = 4
        /\ (last.dict.due_date = "null") <=> (task.due_date = NoDate)
        /\ last.dict.is_overdue =
             (task.due_date # NoDate /\ last.at > task.due_date
                /\ task.status \notin Terminal)

\* C14: validate(), is_overdue() and to_dict() change no field of the task,
\* whether they return or raise.
QueriesArePure ==
    last.op \in Queries => task = pre

QueriesArePureWitness ==
    /\ last.op = "to_dict"
    /\ last.kind = "AttributeError"
    /\ task = pre
    /\ task.updated_at < last.at

\* C15: validate() reports the first broken rule in the order empty title,
\* title length, negative id, due_date before created_at, whatever later
\* rules are broken as well.
DueBeforeCreated(a, at) ==
    /\ a.due_date # NoDate
    /\ a.due_date < (IF a.created_at = DefaultTime THEN at ELSE a.created_at)

ValidateOrder ==
    (last.op = "construct" /\ ~Unrecognised(last.args.priority)) =>
        LET a == last.args
            empty == StrLen(a.title) = 0 \/ AllWhitespace(a.title)
            long == StrLen(a.title) > MaxTitleLen
            negative == a.task_id < 0
            early == DueBeforeCreated(a, last.at)
        IN  /\ empty => last.msg = "Title cannot be empty"
            /\ (~empty /\ long) => last.msg = "Title cannot exceed 200 characters"
            /\ (~empty /\ ~long /\ negative) => last.msg = "Task ID must be non-negative"
            /\ (~empty /\ ~long /\ ~negative /\ early) =>
                 last.msg = "Due date cannot be before creation date"
            /\ (empty \/ long \/ negative \/ early) <=> (last.kind = "ValidationError")

ValidateOrderWitness ==
    /\ last.op = "construct"
    /\ last.args.title = <<Run(" ", MaxTitleLen + 1)>>
    /\ last.args.task_id < 0
    /\ DueBeforeCreated(last.args, last.at)
    /\ last.msg = "Title cannot be empty"

\* C16 as stated: the stored priority of a constructed task is always one
\* of the members LOW, MEDIUM, HIGH, CRITICAL, whatever set_priority was
\* given.
PriorityIsMember ==
    constructed => \E e \in TaskPriority : task.priority = PyEnum(e)

\* C17: update_title with a valid title, update_description and
\* set_priority with a valid priority succeed in every status and leave
\* the status alone; only the mark_* calls ever change the status.
StatusIndependentUpdates ==
    /\ (last.op = "update_title" /\ ~TitleRejected(last.title)) =>
         last.kind = "ok" /\ task.status = pre.status
    /\ last.op = "update_description" =>
         last.kind = "ok" /\ task.status = pre.status
    /\ (last.op = "set_priority" /\ \E e \in TaskPriority : Denotes(last.prio, e)) =>
         last.kind = "ok" /\ task.status = pre.status
    /\ (constructed /\ last.op # "construct" /\ task.status # pre.status) =>
         last.op \in {"mark_in_progress", "mark_completed", "mark_cancelled"}

StatusIndependentUpdatesWitness ==
    /\ last.op = "update_title"
    /\ last.kind = "ok"
    /\ pre.status = COMPLETED
    /\ task.status = COMPLETED
    /\ task.title # pre.title

\* C18: with a clock that never goes back, an overdue task stays overdue
\* until a successful mark_completed or mark_cancelled, and a COMPLETED or
\* CANCELLED task is never overdue afterwards.
OverdueOverTime ==
    [][constructed =>
         /\ (is_overdue(task, now) /\ ~is_overdue(task', now')) =>
              /\ last'.op \in {"mark_completed", "mark_cancelled"}
              /\ last'.kind = "ok"
              /\ task'.status \in Terminal
         /\ task.status \in Terminal => ~is_overdue(task', now')]_vars

OverdueOverTimeWitness ==
    /\ last.op = "mark_cancelled"
    /\ last.kind = "ok"
    /\ pre.status = IN_PROGRESS
    /\ is_overdue(pre, last.at)
    /\ ~is_overdue(task, now)
    /\ now > last.at

====
